---- MODULE Spec2Model ----
(***************************************************************************)
(* A model of src/js/ParticleSphere.js: the particle store, the simulation *)
(* configuration, the cached pointer state, the frame loop and the         *)
(* listeners of one ParticleSphere instance.                               *)
(*                                                                         *)
(* Reals are fixed-point integers: the real r is the integer r * Unit.     *)
(* Vectors are triples <<x, y, z>> of such integers.  The clock is counted *)
(* in frames: every frame callback reads a clock value one larger than the *)
(* previous one.                                                           *)
(***************************************************************************)
EXTENDS Integers, Sequences, FiniteSets, TLC

\* ------------------------------------------------------------------ bounds

\* Fixed-point resolution: the integer Unit stands for the real 1.0.
Unit == 2000

\* The total number of operations (frames, events, calls) of one behaviour.
MaxSteps == 4

\* The largest particle count handed to setParticleCount.
MaxCount == 2

\* The particle count of the constructor.  The source sets 500 (line 19);
\* the model builds the initial store with this many particles.
InitialParticleCount == 2

\* ------------------------------------------------------- program constants

SphereRadius == 2 * Unit
ScatterRadius == 8 * Unit
InitialRotationSpeed == Unit \div 2
InitialInteractionRadius == (3 * Unit) \div 2
InitialInteractionStrength == (3 * Unit) \div 10
\* The smoothing factor 0.05 of position.lerp(targetPosition, 0.05).
Smoothing == (5 * Unit) \div 100

\* ------------------------------------------------------------- arithmetic

\* Division rounding to the nearest grid point (halves away from zero), as
\* float arithmetic rounds to nearest and is symmetric in sign; b > 0.
Div(a, b) == IF a >= 0 THEN (2 * a + b) \div (2 * b) ELSE -((2 * (-a) + b) \div (2 * b))

Zero3 == <<0, 0, 0>>
VAdd(a, b) == <<a[1] + b[1], a[2] + b[2], a[3] + b[3]>>
VSub(a, b) == <<a[1] - b[1], a[2] - b[2], a[3] - b[3]>>
\* v * (num / den)
VScale(v, num, den) == <<Div(v[1] * num, den), Div(v[2] * num, den), Div(v[3] * num, den)>>
LengthSq(v) == v[1] * v[1] + v[2] * v[2] + v[3] * v[3]

RECURSIVE SqrtSearch(_, _, _)
SqrtSearch(n, lo, hi) ==
    IF lo >= hi THEN lo
    ELSE LET mid == (lo + hi + 1) \div 2
         IN IF mid * mid <= n THEN SqrtSearch(n, mid, hi)
            ELSE SqrtSearch(n, lo, mid - 1)

\* Math.sqrt, rounded down to the fixed-point grid.
Sqrt(n) == SqrtSearch(n, 0, 40 * Unit)

Length(v) == Sqrt(LengthSq(v))
DistanceTo(a, b) == Length(VSub(a, b))

\* Vector3.normalize: divideScalar(length() || 1); the result has length Unit.
Normalize(v) ==
    LET len == Length(v)
    IN IF len = 0 THEN v ELSE VScale(v, Unit, len)

\* Vector3.lerpVectors(v1, v2, alpha): x = v1.x + (v2.x - v1.x) * alpha, and
\* likewise y and z.
Lerp(x, y, alpha) == x + Div((y - x) * alpha, Unit)
LerpVectors(v1, v2, alpha) ==
    <<Lerp(v1[1], v2[1], alpha), Lerp(v1[2], v2[2], alpha), Lerp(v1[3], v2[3], alpha)>>

\* Math.max(0, Math.min(1, value))
Min(a, b) == IF a < b THEN a ELSE b
Max(a, b) == IF a > b THEN a ELSE b

\* ----------------------------------------------------- geometry generator

\* <<cos(theta), sin(theta)>> in thousandths for theta = sqrt(n * PI) * phi,
\* phi = acos(-1 + 2 i / n), i = 0 .. n-1 (lines 132-133), for n = 1 .. 6.
ThetaTable ==
    << << <<755, -656>> >>,
       << <<-21, 1000>>, <<-700, -714>> >>,
       << <<-976, -218>>, <<914, -406>>, <<-804, -595>> >>,
       << <<141, -990>>, <<416, 909>>, <<755, -656>>, <<-842, -540>> >>,
       << <<993, -115>>, <<-797, 604>>, <<738, 675>>, <<656, -755>>, <<-861, -509>> >>,
       << <<477, 879>>, <<-846, -534>>, <<-427, 904>>, <<859, 511>>, <<591, -807>>, <<-873, -488>> >> >>

\* Mutant of SpherePosition: the height z is left at 0.
SpherePositionNoHeight(i, n) ==
    LET cosPhi == Div(2 * i * Unit, n) - Unit
        sinPhi == Sqrt(Unit * Unit - cosPhi * cosPhi)
        cs     == ThetaTable[n][i + 1]
    IN << Div(Div(SphereRadius * cs[1], 1000) * sinPhi, Unit),
          Div(Div(SphereRadius * cs[2], 1000) * sinPhi, Unit),
          0 >>

\* The position of particle i (0-based) of n on the sphere (lines 132-138):
\* cos(phi) = -1 + 2 i / n, sin(phi) = sqrt(1 - cos(phi)^2).
SpherePosition(i, n) ==
    LET cosPhi == Div(2 * i * Unit, n) - Unit
        sinPhi == Sqrt(Unit * Unit - cosPhi * cosPhi)
        cs     == ThetaTable[n][i + 1]
    IN << Div(Div(SphereRadius * cs[1], 1000) * sinPhi, Unit),
          Div(Div(SphereRadius * cs[2], 1000) * sinPhi, Unit),
          Div(SphereRadius * cosPhi, Unit) >>

\* cos and sin of theta = Math.random() * 2 PI for the draws that are whole
\* quarter turns.
QuarterCos(q) == CASE q = 0 -> 1 [] q = 1 -> 0 [] q = 2 -> -1 [] OTHER -> 0
QuarterSin(q) == CASE q = 0 -> 0 [] q = 1 -> 1 [] q = 2 -> 0 [] OTHER -> -1

\* Mutant of ScatteredPositionFor: radius = scatterRadius * (0.5 + random).
ScatteredPositionWide(scatterRadius, u) ==
    LET cosPhi == 2 * u[2] - Unit
        sinPhi == Sqrt(Unit * Unit - cosPhi * cosPhi)
        radius == Div(scatterRadius * (Unit + 2 * u[3]), 2 * Unit)
    IN << Div(radius * sinPhi, Unit) * QuarterCos(u[1]),
          Div(radius * sinPhi, Unit) * QuarterSin(u[1]),
          Div(radius * cosPhi, Unit) >>

\* getScatteredPosition for the three draws of Math.random(): u[1] is the
\* first draw in quarter turns (theta = u[1] * PI / 2), u[2] and u[3] are the
\* second and third draws in [0, Unit).
ScatteredPositionFor(scatterRadius, u) ==
    LET cosPhi == 2 * u[2] - Unit
        sinPhi == Sqrt(Unit * Unit - cosPhi * cosPhi)
        radius == Div(scatterRadius * (Unit + u[3]), 2 * Unit)
    IN << Div(radius * sinPhi, Unit) * QuarterCos(u[1]),
          Div(radius * sinPhi, Unit) * QuarterSin(u[1]),
          Div(radius * cosPhi, Unit) >>

GetScatteredPosition(u) == ScatteredPositionFor(ScatterRadius, u)

\* The draws of Math.random() for one particle that the model takes.
ScatterDraws == << <<0, Unit \div 2, Unit - 1>>, <<1, Unit \div 4, 0>>, <<2, Unit - 1, Unit \div 2>> >>

\* Math.random() is a stream of draws; the model takes the streams that start
\* at any place of ScatterDraws and run through it cyclically.  RandomDraw is
\* the draws stream s yields for the k-th particle created in one loop.
RandomStreams == 1 .. Len(ScatterDraws)
RandomDraw(s, k) == ScatterDraws[((s + k - 2) % Len(ScatterDraws)) + 1]

\* ------------------------------------------------------------------ state

VARIABLES
    particleCount,        \* this.particleCount
    morphValue,           \* this.morphValue
    rotationSpeed,        \* this.rotationSpeed
    interactionRadius,    \* this.interactionRadius
    interactionStrength,  \* this.interactionStrength
    particles,            \* this.particles: the Particle Store
    sceneGroups,          \* the particle groups added to this.scene, each the set of its children
    particleGroup,        \* this.particleGroup: the index of the current group in sceneGroups
    groupRotationY,       \* this.particleGroup.rotation.y
    mousePosition,        \* this.mousePosition: the cached pointer intersection point
    isMouseNear,          \* this.isMouseNear
    time,                 \* the value clock.getElapsedTime() returned to the last frame
    rafPending,           \* the number of frame callbacks requested and not yet run
    rendererDisposed,     \* renderer.dispose() was called
    controlsDisposed,     \* controls.dispose() was called
    listeners,            \* the listeners registered on the canvas and the window
    windowSize,           \* window.innerWidth, window.innerHeight
    rendererSize,         \* the size last handed to renderer.setSize
    frameLog,             \* the steps the last frame callback took, in order
    rendered,             \* the particle positions the last renderer.render drew
    page,                 \* the host page: its environment and what main.js init() did
    probe,                \* the last result of a geometry-generator call made on its own
    steps                 \* the number of operations so far

config == <<particleCount, morphValue, rotationSpeed, interactionRadius, interactionStrength>>
pointer == <<mousePosition, isMouseNear>>
scene == <<sceneGroups, particleGroup, groupRotationY>>
lifecycle == <<rendererDisposed, controlsDisposed, listeners>>
viewport == <<windowSize, rendererSize>>
frame == <<time, rafPending, frameLog, rendered>>
aux == <<page, probe>>
vars == <<config, particles, scene, pointer, frame, lifecycle, viewport, aux, steps>>

\* ----------------------------------------------------------------- inputs

\* A pointer ray that does not meet the reference plane.
NoHit == << >>

\* What raycaster.ray.intersectPlane finds for a pointer-move event: a point
\* of the plane z = 0, or nothing.
PointerHits == { <<-Unit, -Unit, 0>>, <<Unit, Unit, 0>>, <<5 * Unit, 0, 0>>, NoHit }

\* The sizes the window takes, <<innerWidth, innerHeight>>.
WindowSizes == { <<800, 600>>, <<1024, 768>> }

MorphInputs == { -5 * Unit, 0, Unit \div 2, Unit, 5 * Unit }
RotationSpeedInputs == { 2 * Unit }
InteractionRadiusInputs == { Unit }
InteractionStrengthInputs == { Unit }
CountInputs == -1 .. MaxCount

\* -------------------------------------------------------------- listeners

\* The closures setupEventListeners registers, and the method reference
\* dispose hands to removeEventListener.  removeEventListener removes the
\* listener that is the very function object it is given.
MouseMoveListener == [target |-> "canvas", type |-> "mousemove", fn |-> "arrow:onMouseMove"]
ResizeListener == [target |-> "window", type |-> "resize", fn |-> "arrow:onWindowResize"]
DisposeResizeArgument == [target |-> "window", type |-> "resize", fn |-> "method:onWindowResize"]

SetupEventListeners == { MouseMoveListener, ResizeListener }

HasListener(target, type) ==
    \E l \in listeners : l.target = target /\ l.type = type

\* ------------------------------------------------------------ particle store

\* The particle createParticles makes at index i (0-based) of count, as a
\* child of group g, with the random draws u.
NewParticle(g, i, count, u) ==
    [ id                   |-> <<g, i>>,
      position             |-> SpherePosition(i, count),
      originalPosition     |-> SpherePosition(i, count),
      scatteredPosition    |-> GetScatteredPosition(u),
      isInteracting        |-> FALSE,
      interactionStartTime |-> 0 ]

\* The loop of createParticles: count particles, none when count <= 0.
CreatedParticles(g, count, draws) ==
    [ k \in 1 .. Max(count, 0) |-> NewParticle(g, k - 1, count, draws[k]) ]

Ids(ps) == { ps[k].id : k \in 1 .. Len(ps) }

\* The draws of random stream s for count new particles.
DrawsFor(count, s) == [ k \in 1 .. Max(count, 0) |-> RandomDraw(s, k) ]

\* ----------------------------------------------------------- construction

Positions(ps) == [ k \in 1 .. Len(ps) |-> ps[k].position ]

\* Mutant of AnimateSteps: render comes before the Simulation Step.
AnimateStepsRenderFirst ==
    << "requestAnimationFrame", "controls.update", "render", "updateParticles", "updateRotation" >>

\* The steps of animate(), in the order of its statements.
AnimateSteps ==
    << "requestAnimationFrame", "controls.update", "updateParticles", "updateRotation", "render" >>

\* The fields the constructor and init() leave, for the random stream s:
\* init() builds the scene and the store, registers the listeners and calls
\* animate() once, which requests the next frame and runs a first Simulation
\* Step at clock 0 (every particle already sits on its target, so no position
\* changes) and a first render.
Constructed(s) ==
    LET created == CreatedParticles(1, InitialParticleCount, DrawsFor(InitialParticleCount, s))
    IN [ particleCount       |-> InitialParticleCount,
         morphValue          |-> 0,
         rotationSpeed       |-> InitialRotationSpeed,
         interactionRadius   |-> InitialInteractionRadius,
         interactionStrength |-> InitialInteractionStrength,
         particles           |-> created,
         sceneGroups         |-> << Ids(created) >>,
         particleGroup       |-> 1,
         groupRotationY      |-> 0,
         mousePosition       |-> Zero3,
         isMouseNear         |-> FALSE,
         time                |-> 0,
         rafPending          |-> 1,
         frameLog            |-> AnimateSteps,
         rendered            |-> Positions(created),
         rendererDisposed    |-> FALSE,
         controlsDisposed    |-> FALSE,
         listeners           |-> SetupEventListeners,
         rendererSize        |-> <<800, 600>> ]

\* The fields while no instance exists.
NoInstance ==
    [ particleCount       |-> 0,
      morphValue          |-> 0,
      rotationSpeed       |-> 0,
      interactionRadius   |-> 0,
      interactionStrength |-> 0,
      particles           |-> << >>,
      sceneGroups         |-> << >>,
      particleGroup       |-> 0,
      groupRotationY      |-> 0,
      mousePosition       |-> Zero3,
      isMouseNear         |-> FALSE,
      time                |-> 0,
      rafPending          |-> 0,
      frameLog            |-> << >>,
      rendered            |-> << >>,
      rendererDisposed    |-> FALSE,
      controlsDisposed    |-> FALSE,
      listeners           |-> {},
      rendererSize        |-> <<0, 0>> ]

\* The instance's fields are those of the record c.
InstanceIs(c) ==
    /\ particleCount = c.particleCount
    /\ morphValue = c.morphValue
    /\ rotationSpeed = c.rotationSpeed
    /\ interactionRadius = c.interactionRadius
    /\ interactionStrength = c.interactionStrength
    /\ particles = c.particles
    /\ sceneGroups = c.sceneGroups
    /\ particleGroup = c.particleGroup
    /\ groupRotationY = c.groupRotationY
    /\ mousePosition = c.mousePosition
    /\ isMouseNear = c.isMouseNear
    /\ time = c.time
    /\ rafPending = c.rafPending
    /\ frameLog = c.frameLog
    /\ rendered = c.rendered
    /\ rendererDisposed = c.rendererDisposed
    /\ controlsDisposed = c.controlsDisposed
    /\ listeners = c.listeners
    /\ rendererSize = c.rendererSize

\* The instance's fields become those of the record c.
InstanceBecomes(c) ==
    /\ particleCount' = c.particleCount
    /\ morphValue' = c.morphValue
    /\ rotationSpeed' = c.rotationSpeed
    /\ interactionRadius' = c.interactionRadius
    /\ interactionStrength' = c.interactionStrength
    /\ particles' = c.particles
    /\ sceneGroups' = c.sceneGroups
    /\ particleGroup' = c.particleGroup
    /\ groupRotationY' = c.groupRotationY
    /\ mousePosition' = c.mousePosition
    /\ isMouseNear' = c.isMouseNear
    /\ time' = c.time
    /\ rafPending' = c.rafPending
    /\ frameLog' = c.frameLog
    /\ rendered' = c.rendered
    /\ rendererDisposed' = c.rendererDisposed
    /\ controlsDisposed' = c.controlsDisposed
    /\ listeners' = c.listeners
    /\ rendererSize' = c.rendererSize

\* The host page once main.js init() has set the visualizer up.
PageReady ==
    [ containerPresent |-> TRUE,
      threeLoaded      |-> TRUE,
      webglAvailable   |-> TRUE,
      status           |-> "ready",
      errors           |-> << >>,
      instance         |-> TRUE,
      renderer         |-> TRUE,
      panelWired       |-> TRUE,
      fpsLoop          |-> TRUE ]

\* No geometry-generator call has been made on its own.
NoProbe == [ kind |-> "none" ]

\* The state the constructor leaves on a page that has set it up.
Init ==
    /\ \E s \in RandomStreams : InstanceIs(Constructed(s))
    /\ windowSize = <<800, 600>>
    /\ page = PageReady
    /\ probe = NoProbe
    /\ steps = 0

\* Every operation counts against MaxSteps.
Tick == steps < MaxSteps /\ steps' = steps + 1

\* ------------------------------------------------------------ pointer move

\* onMouseMove: intersection is a fresh zero vector that intersectPlane fills
\* in only when the ray meets the plane; mousePosition copies it either way.
Intersection(hit) == IF hit = NoHit THEN Zero3 ELSE hit

OnMouseMove(hit) ==
    /\ mousePosition' = Intersection(hit)
    /\ isMouseNear' = (DistanceTo(mousePosition', Zero3) < interactionRadius)

\* Mutant of MouseMoveEvent: the handler also marks the particles near the
\* pointer point as interacting.
MouseMoveEventMarking(hit) ==
    /\ Tick
    /\ IF HasListener("canvas", "mousemove")
       THEN OnMouseMove(hit)
       ELSE UNCHANGED pointer
    /\ particles' = [ k \in 1 .. Len(particles) |->
                        [ particles[k] EXCEPT !.isInteracting = isMouseNear' ] ]
    /\ UNCHANGED <<config, scene, frame, lifecycle, viewport, aux>>

\* A pointer-move event on the canvas, delivered to the listener if one is
\* registered.
MouseMoveEvent(hit) ==
    /\ Tick
    /\ IF HasListener("canvas", "mousemove")
       THEN OnMouseMove(hit)
       ELSE UNCHANGED pointer
    /\ UNCHANGED <<config, particles, scene, frame, lifecycle, viewport, aux>>

\* ----------------------------------------------------------------- resize

\* onWindowResize: camera aspect and renderer size follow the window.
OnWindowResize == rendererSize' = windowSize'

\* The window takes a new size and the resize event is delivered to the
\* listener if one is registered.
ResizeEvent(size) ==
    /\ Tick
    /\ windowSize' = size
    /\ IF HasListener("window", "resize")
       THEN OnWindowResize
       ELSE UNCHANGED rendererSize
    /\ UNCHANGED <<config, particles, scene, pointer, frame, lifecycle, aux>>

\* ------------------------------------------------------------------ frame

\* The target of one particle before smoothing (lines 232-253).
\* Mutant of RepulsionStrength: the difference is not divided by the radius.
RepulsionStrengthUnnormalised(distanceToMouse) == interactionRadius - distanceToMouse

RepulsionStrength(distanceToMouse) ==
    Div((interactionRadius - distanceToMouse) * Unit, interactionRadius)

RepulsionOffset(p) ==
    LET distanceToMouse == DistanceTo(p.position, mousePosition)
        direction == Normalize(VSub(p.position, mousePosition))
    IN VScale(direction,
              Div(RepulsionStrength(distanceToMouse) * interactionStrength, Unit),
              Unit)

\* Whether the particle is within the interaction radius of the pointer point.
WithinRadius(p) == DistanceTo(p.position, mousePosition) < interactionRadius

\* Mutant of UpdateParticle: the step smooths originalPosition along with
\* position.
UpdateParticleMovingOrigin(p, t) ==
    LET morphTarget == LerpVectors(p.originalPosition, p.scatteredPosition, morphValue)
    IN [ p EXCEPT
           !.isInteracting = FALSE,
           !.position = LerpVectors(@, morphTarget, Smoothing),
           !.originalPosition = LerpVectors(@, morphTarget, Smoothing) ]

\* Mutant of UpdateParticle: the morph target blends from scatteredPosition
\* to originalPosition.
UpdateParticleSwappedMorph(p, t) ==
    LET morphTarget == LerpVectors(p.scatteredPosition, p.originalPosition, morphValue)
        hit == isMouseNear /\ WithinRadius(p)
        targetPosition == IF hit THEN VAdd(morphTarget, RepulsionOffset(p)) ELSE morphTarget
    IN [ p EXCEPT
           !.isInteracting = IF isMouseNear THEN (IF hit THEN TRUE ELSE @) ELSE FALSE,
           !.interactionStartTime = IF hit THEN t ELSE @,
           !.position = LerpVectors(@, targetPosition, Smoothing) ]

\* updateParticles for one particle at clock value t.
UpdateParticle(p, t) ==
    LET morphTarget == LerpVectors(p.originalPosition, p.scatteredPosition, morphValue)
        hit == isMouseNear /\ WithinRadius(p)
        targetPosition == IF hit THEN VAdd(morphTarget, RepulsionOffset(p)) ELSE morphTarget
    IN [ p EXCEPT
           !.isInteracting = IF isMouseNear THEN (IF hit THEN TRUE ELSE @) ELSE FALSE,
           !.interactionStartTime = IF hit THEN t ELSE @,
           !.position = LerpVectors(@, targetPosition, Smoothing) ]

UpdateParticles(ps, t) == [ k \in 1 .. Len(ps) |-> UpdateParticle(ps[k], t) ]

\* updateRotation: rotation.y = time * rotationSpeed * 0.01 (rotation.x and
\* rotation.z are functions of the clock alone).
UpdateRotation(t) == Div(t * rotationSpeed, 100)

\* One statement of animate() at clock value t, on the running values fs of
\* the fields the callback writes.  controls.update() moves the camera only.
\* Mutant of AnimateStep: the frame requests two successors.
AnimateStepDoubleRequest(name, fs, t) ==
    LET logged == [ fs EXCEPT !.log = Append(@, name) ]
    IN CASE name = "requestAnimationFrame" -> [ logged EXCEPT !.raf = @ + 2 ]
         [] name = "updateParticles" -> [ logged EXCEPT !.particles = UpdateParticles(@, t) ]
         [] name = "updateRotation" -> [ logged EXCEPT !.rotationY = UpdateRotation(t) ]
         [] name = "render" -> [ logged EXCEPT !.rendered = Positions(fs.particles) ]
         [] OTHER -> logged

AnimateStep(name, fs, t) ==
    LET logged == [ fs EXCEPT !.log = Append(@, name) ]
    IN CASE name = "requestAnimationFrame" -> [ logged EXCEPT !.raf = @ + 1 ]
         [] name = "updateParticles" -> [ logged EXCEPT !.particles = UpdateParticles(@, t) ]
         [] name = "updateRotation" -> [ logged EXCEPT !.rotationY = UpdateRotation(t) ]
         [] name = "render" -> [ logged EXCEPT !.rendered = Positions(fs.particles) ]
         [] OTHER -> logged

RECURSIVE RunSteps(_, _, _)
RunSteps(names, fs, t) ==
    IF names = << >> THEN fs
    ELSE CHOOSE after \in { RunSteps(Tail(names), done, t) :
                               done \in { AnimateStep(Head(names), fs, t) } } : TRUE

\* Mutant of FrameCallback: the frame recomputes the pointer-near flag from
\* the cached point and the current interaction radius.
FrameCallbackRecomputingNear ==
    /\ rafPending > 0
    /\ \E fs \in { RunSteps(AnimateSteps,
                          [ raf       |-> rafPending - 1,
                            particles |-> particles,
                            rotationY |-> groupRotationY,
                            rendered  |-> rendered,
                            log       |-> << >> ],
                          time + 1) } :
          /\ rafPending' = fs.raf
          /\ particles' = fs.particles
          /\ groupRotationY' = fs.rotationY
          /\ rendered' = fs.rendered
          /\ frameLog' = fs.log
    /\ time' = time + 1
    /\ isMouseNear' = (DistanceTo(mousePosition, Zero3) < interactionRadius)
    /\ UNCHANGED <<config, sceneGroups, particleGroup, mousePosition, lifecycle, viewport>>

\* animate as the frame callback: the pending request is consumed and the
\* statements of animate() run in order at the next clock value.
FrameCallback ==
    /\ rafPending > 0
    /\ \E fs \in { RunSteps(AnimateSteps,
                          [ raf       |-> rafPending - 1,
                            particles |-> particles,
                            rotationY |-> groupRotationY,
                            rendered  |-> rendered,
                            log       |-> << >> ],
                          time + 1) } :
          /\ rafPending' = fs.raf
          /\ particles' = fs.particles
          /\ groupRotationY' = fs.rotationY
          /\ rendered' = fs.rendered
          /\ frameLog' = fs.log
    /\ time' = time + 1
    /\ UNCHANGED <<config, sceneGroups, particleGroup, pointer, lifecycle, viewport>>

Animate == Tick /\ FrameCallback /\ UNCHANGED aux

\* ---------------------------------------------------------------- setters

\* Mutants of Clamp01: the upper clamp alone, and no clamp at all.
Clamp01UpperOnly(value) == Min(Unit, value)
Clamp01Unclamped(value) == value

Clamp01(value) == Max(0, Min(Unit, value))

SetMorphValue(value) ==
    /\ Tick
    /\ morphValue' = Clamp01(value)
    /\ UNCHANGED <<particleCount, rotationSpeed, interactionRadius, interactionStrength>>
    /\ UNCHANGED <<particles, scene, pointer, frame, lifecycle, viewport, aux>>

SetRotationSpeed(speed) ==
    /\ Tick
    /\ rotationSpeed' = speed
    /\ UNCHANGED <<particleCount, morphValue, interactionRadius, interactionStrength>>
    /\ UNCHANGED <<particles, scene, pointer, frame, lifecycle, viewport, aux>>

\* Mutant of SetInteractionRadius: the setter also recomputes the
\* pointer-near flag against the new radius.
SetInteractionRadiusRefreshingNear(radius) ==
    /\ Tick
    /\ interactionRadius' = radius
    /\ isMouseNear' = (DistanceTo(mousePosition, Zero3) < radius)
    /\ UNCHANGED <<particleCount, morphValue, rotationSpeed, interactionStrength>>
    /\ UNCHANGED <<particles, scene, mousePosition, frame, lifecycle, viewport, aux>>

SetInteractionRadius(radius) ==
    /\ Tick
    /\ interactionRadius' = radius
    /\ UNCHANGED <<particleCount, morphValue, rotationSpeed, interactionStrength>>
    /\ UNCHANGED <<particles, scene, pointer, frame, lifecycle, viewport, aux>>

SetInteractionStrength(strength) ==
    /\ Tick
    /\ interactionStrength' = strength
    /\ UNCHANGED <<particleCount, morphValue, rotationSpeed, interactionRadius>>
    /\ UNCHANGED <<particles, scene, pointer, frame, lifecycle, viewport, aux>>

\* recreateParticles: every particle of the store is removed from the current
\* group and the store is emptied.
\* Mutant of RemovedFromGroup: the old particles stay children of their group.
RemovedFromGroupNothing == sceneGroups

RemovedFromGroup == [ sceneGroups EXCEPT ![particleGroup] = @ \ Ids(particles) ]

\* createParticles after recreateParticles emptied the store: a new group is
\* added to the scene and filled; the store is the new particles.
RecreateParticles(count, draws) ==
    LET g == Len(sceneGroups) + 1
        created == CreatedParticles(g, count, draws)
    IN /\ particles' = created
       /\ sceneGroups' = Append(RemovedFromGroup, Ids(created))
       /\ particleGroup' = g

\* The rotation of a new THREE.Group.
NewGroupRotationY == 0

SetParticleCount(count) ==
    /\ Tick
    /\ particleCount' = count
    /\ \E s \in RandomStreams : RecreateParticles(count, DrawsFor(count, s))
    /\ groupRotationY' = NewGroupRotationY
    /\ UNCHANGED <<morphValue, rotationSpeed, interactionRadius, interactionStrength>>
    /\ UNCHANGED <<pointer, frame, lifecycle, viewport, aux>>

\* ---------------------------------------------------------------- dispose

Dispose ==
    /\ Tick
    /\ rendererDisposed' = TRUE
    /\ controlsDisposed' = TRUE
    /\ listeners' = listeners \ { DisposeResizeArgument }
    /\ UNCHANGED <<config, particles, scene, pointer, frame, viewport, aux>>

\* ------------------------------------------------------------ specification

Next ==
    \/ Animate
    \/ \E hit \in PointerHits : MouseMoveEvent(hit)
    \/ \E size \in WindowSizes : ResizeEvent(size)
    \/ \E value \in MorphInputs : SetMorphValue(value)
    \/ \E speed \in RotationSpeedInputs : SetRotationSpeed(speed)
    \/ \E radius \in InteractionRadiusInputs : SetInteractionRadius(radius)
    \/ \E strength \in InteractionStrengthInputs : SetInteractionStrength(strength)
    \/ \E count \in CountInputs : SetParticleCount(count)
    \/ Dispose

Spec == Init /\ [][Next]_vars

\* -------------------------------------------------------- page specification

\* The page before main.js init() runs, in an environment env.
PageLoading(env) ==
    [ containerPresent |-> env.containerPresent,
      threeLoaded      |-> env.threeLoaded,
      webglAvailable   |-> env.webglAvailable,
      status           |-> "loading",
      errors           |-> << >>,
      instance         |-> FALSE,
      renderer         |-> FALSE,
      panelWired       |-> FALSE,
      fpsLoop          |-> FALSE ]

\* The environments: whether the mount point exists, whether the THREE global
\* is defined, and whether a WebGL context can be created.
Environments ==
    [ containerPresent : BOOLEAN, threeLoaded : BOOLEAN, webglAvailable : BOOLEAN ]

PageInit ==
    /\ InstanceIs(NoInstance)
    /\ windowSize = <<800, 600>>
    /\ \E env \in Environments : page = PageLoading(env)
    /\ probe = NoProbe
    /\ steps = 0

\* Mutant of ContainerFound: init() does not look at the container.
ContainerFoundUnchecked == TRUE

\* main.js init(): document.getElementById('container') is not null.
ContainerFound == page.containerPresent

\* init() returns after console.error(message): nothing else has run.
SetupAborts(message, rendererCreated) ==
    /\ page' = [ page EXCEPT !.status = "failed",
                             !.errors = Append(@, message),
                             !.renderer = rendererCreated ]
    /\ UNCHANGED <<config, particles, scene, pointer, frame, lifecycle, viewport>>

\* new ...ParticleSphere(container) inside try/catch: new THREE.WebGLRenderer
\* throws without a WebGL context, before anything is attached, registered or
\* scheduled; container.appendChild throws on a null container, after the
\* renderer was created; otherwise init() runs to its end, and main.js goes
\* on to setupControlPanel() and startFpsCounter().
ConstructInstance ==
    IF ~page.webglAvailable THEN SetupAborts("Error creating AdvancedParticleSphere:", FALSE)
    ELSE IF ~page.containerPresent
           THEN SetupAborts("Error creating AdvancedParticleSphere:", TRUE)
    ELSE /\ \E s \in RandomStreams : InstanceBecomes(Constructed(s))
         /\ page' = PageReady
         /\ UNCHANGED windowSize

\* main.js init().
MainInit ==
    /\ page.status = "loading"
    /\ IF ~ContainerFound THEN SetupAborts("Container element not found!", FALSE)
       ELSE IF ~page.threeLoaded THEN SetupAborts("Three.js not loaded!", FALSE)
       ELSE ConstructInstance
    /\ UNCHANGED <<probe, steps>>

\* init() runs once; events, frames and setter calls reach the instance that
\* a successful init() left.
PageNext ==
    \/ MainInit
    \/ page.status = "ready" /\ Next

PageSpec == PageInit /\ [][PageNext]_vars

\* ---------------------------------------------------- geometry specification

\* Values of this.scatterRadius and draws of Math.random() over their ranges:
\* the first draw in quarter turns, the second and third in [0, Unit).
RadiusSamples == { Unit \div 2, Unit, 3 * Unit, ScatterRadius }
DrawSamples ==
    { <<q, u2, u3>> : q \in 0 .. 3,
                      u2 \in { 0, Unit \div 4, Unit \div 2, (3 * Unit) \div 4, Unit - 1 },
                      u3 \in { 0, Unit \div 2, Unit - 1 } }

\* One call of getScatteredPosition().
ScatterProbe ==
    /\ \E r \in RadiusSamples, u \in DrawSamples :
          probe' = [ kind |-> "scatter", radius |-> r, draw |-> u,
                     point |-> ScatteredPositionFor(r, u) ]
    /\ UNCHANGED <<config, particles, scene, pointer, frame, lifecycle, viewport, page, steps>>

\* One run of the creation loop of createParticles() for a total of n.
SphereProbe ==
    /\ \E n \in 1 .. Len(ThetaTable), s \in RandomStreams :
          probe' = [ kind |-> "sphere", total |-> n,
                     particles |-> CreatedParticles(1, n, DrawsFor(n, s)) ]
    /\ UNCHANGED <<config, particles, scene, pointer, frame, lifecycle, viewport, page, steps>>

GeometryNext == ScatterProbe \/ SphereProbe

GeometrySpec == Init /\ [][GeometryNext]_vars

\* ------------------------------------------------- convergence specification

\* No particle would move in the next Simulation Step.
AtRest == Positions(UpdateParticles(particles, time + 1)) = Positions(particles)

\* A frame callback that moves some particle.  The browser runs the pending
\* callback every display refresh, so it is taken whenever it stays enabled;
\* callbacks that would advance nothing but the clock are left out.
SettleFrame ==
    /\ FrameCallback
    /\ Positions(particles') # Positions(particles)
    /\ UNCHANGED <<aux, steps>>

\* setMorphValue called while the particles are at rest, then frames until
\* the particles are at rest again.
ConvergeNext ==
    \/ \E value \in MorphInputs : AtRest /\ SetMorphValue(value)
    \/ SettleFrame

ConvergeSpec == Init /\ [][ConvergeNext]_vars /\ WF_vars(SettleFrame)

\* ------------------------------------------------------------------ claims

\* A step that is a call of one of the mutators.
MutatorStep ==
    \/ \E value \in MorphInputs : SetMorphValue(value)
    \/ \E speed \in RotationSpeedInputs : SetRotationSpeed(speed)
    \/ \E radius \in InteractionRadiusInputs : SetInteractionRadius(radius)
    \/ \E strength \in InteractionStrengthInputs : SetInteractionStrength(strength)
    \/ \E count \in CountInputs : SetParticleCount(count)

\* C1: once dispose() has been called no frame callback executes again: in a
\* disposed instance the clock value read by the last frame never changes.
C1_NoFrameAfterDispose == [][rendererDisposed => time' = time]_vars

\* C2: after dispose() every mutator is a no-op: a mutator step of a disposed
\* instance leaves the Simulation Config and the Particle Store unchanged.
C2_MutatorsNoOpAfterDispose ==
    [][(rendererDisposed /\ MutatorStep) => UNCHANGED <<config, particles>>]_vars

\* C3: dispose() detaches every listener: in a disposed instance no event
\* runs onMouseMove (the cached pointer point and the pointer-near flag stay
\* unchanged) or onWindowResize (the renderer size stays unchanged).
C3_ListenersDetached ==
    [][rendererDisposed => UNCHANGED <<mousePosition, isMouseNear, rendererSize>>]_vars

\* C4: after every Simulation Step a particle whose distance to the cached
\* pointer point was not below interactionRadius in that step is not marked
\* isInteracting, whatever the pointer-near flag.
C4_OutsideRadiusNotInteracting ==
    [][Animate =>
         \A k \in 1 .. Len(particles) :
            ~WithinRadius(particles[k]) => ~particles'[k].isInteracting]_vars

\* C5: after setParticleCount(n) with n positive the store holds exactly n
\* particles, none of them a particle of the previous store, every one a
\* child of the current group, and no particle of the previous store is a
\* child of any group of the scene.
C5_RebuildExact ==
    [][\A n \in 1 .. MaxCount :
          SetParticleCount(n) =>
             /\ Len(particles') = n
             /\ Cardinality(Ids(particles')) = n
             /\ Ids(particles') \cap Ids(particles) = {}
             /\ sceneGroups'[particleGroup'] = Ids(particles')
             /\ \A g \in 1 .. Len(sceneGroups') :
                   sceneGroups'[g] \cap Ids(particles) = {}]_vars

\* C5 witness: a rebuild to one particle has happened.
C5_Witness ==
    /\ Len(sceneGroups) > 1
    /\ particleCount = 1
    /\ Len(particles) = 1

\* C6: an invalid particle count is clamped: after setParticleCount(n) with n
\* zero or negative, particleCount is the nearest valid count, 1.
C6_InvalidCountClamped ==
    [][\A n \in CountInputs :
          (n <= 0 /\ SetParticleCount(n)) => particleCount' = 1]_vars

\* clamp(v, 0, 1) as the claim C7 uses it.
ClampToUnitInterval(v) == IF v < 0 THEN 0 ELSE IF v > Unit THEN Unit ELSE v

\* C7: setMorphValue is idempotent under clamping: every step setMorphValue(v)
\* is also a step setMorphValue(clamp(v, 0, 1)), so both leave the same
\* state, and a second setMorphValue(v) changes nothing of the instance.
C7_MorphIdempotentUnderClamp ==
    [][\A v \in MorphInputs :
          SetMorphValue(v) =>
             /\ SetMorphValue(ClampToUnitInterval(v))
             /\ Clamp01(morphValue') = morphValue'
             /\ (morphValue = Clamp01(v) => morphValue' = morphValue)]_vars

\* C7 witness: setMorphValue has stored the upper end of the interval, which
\* the inputs 1 and 5 both lead to.
C7_Witness == morphValue = Unit /\ steps > 0

\* C8: morphValue lies in [0, 1] in every reachable state.
C8_MorphValueInRange == 0 <= morphValue /\ morphValue <= Unit

\* C8 witness: a morph value strictly inside the interval was set and frames
\* have run since.
C8_Witness == 0 < morphValue /\ morphValue < Unit /\ time > 0

\* C9: a pointer-move event whose ray does not meet the reference plane
\* leaves the cached pointer intersection point unchanged.
C9_MissKeepsPointerPoint ==
    [][MouseMoveEvent(NoHit) => mousePosition' = mousePosition]_vars

\* C10: every step that is not a store rebuild keeps the store's particles
\* and leaves originalPosition and scatteredPosition of each unchanged.
C10_CreationFieldsImmutable ==
    [][(~ \E count \in CountInputs : SetParticleCount(count)) =>
          /\ Len(particles') = Len(particles)
          /\ \A k \in 1 .. Len(particles) :
                /\ particles'[k].id = particles[k].id
                /\ particles'[k].originalPosition = particles[k].originalPosition
                /\ particles'[k].scatteredPosition = particles[k].scatteredPosition]_vars

\* C10 witness: the Simulation Step has moved a particle away from its
\* originalPosition.
C10_Witness ==
    /\ time > 0
    /\ \E k \in 1 .. Len(particles) :
          particles[k].position # particles[k].originalPosition

\* The epsilon of C11: 0.01.
Epsilon == Unit \div 100

ConvergedTo(field) ==
    \A k \in 1 .. Len(particles) :
       DistanceTo(particles[k].position, particles[k][field]) < Epsilon

\* C11: with the pointer-near flag clear, repeated frames eventually bring
\* every particle within 0.01 of its originalPosition when morphValue = 0, and
\* of its scatteredPosition when morphValue = 1, and keep it there.
C11_Converges ==
    <>[](/\ (morphValue = 0 /\ ~isMouseNear) => ConvergedTo("originalPosition")
         /\ (morphValue = Unit /\ ~isMouseNear) => ConvergedTo("scatteredPosition"))

\* C11 witness: after frames at another morph value, the particles are back
\* within epsilon of their originalPosition under morphValue = 0.
C11_Witness ==
    /\ morphValue = 0
    /\ ~isMouseNear
    /\ time > 0
    /\ Len(particles) > 0
    /\ ConvergedTo("originalPosition")

\* Distances at which C12 is examined: those of the particles from the
\* pointer point, and fixed ones between 0 and the interaction radius.
C12_Distances ==
    { DistanceTo(particles[k].position, mousePosition) : k \in 1 .. Len(particles) }
        \cup { 0, Unit \div 2, Unit, interactionRadius - 1 }

\* C12: for a distance d below the interaction radius R the repulsion strength
\* is (R - d) / R: greater than 0, at most 1, equal to 1 at d = 0, and strictly
\* larger for a smaller distance (beyond one grid step of rounding); R = 1.5
\* and d = 1.0 give 0.333.
C12_RepulsionStrength ==
    /\ RepulsionStrength(0) = Unit
    /\ \A d \in C12_Distances :
          (0 <= d /\ d < interactionRadius) =>
             /\ 0 < RepulsionStrength(d)
             /\ RepulsionStrength(d) <= Unit
             /\ 2 * (RepulsionStrength(d) * interactionRadius
                       - (interactionRadius - d) * Unit) <= interactionRadius
             /\ 2 * ((interactionRadius - d) * Unit
                       - RepulsionStrength(d) * interactionRadius) <= interactionRadius
             /\ \A e \in C12_Distances :
                   (0 <= e /\ e + 1 < d) => RepulsionStrength(e) > RepulsionStrength(d)
    /\ interactionRadius = (3 * Unit) \div 2 =>
          /\ RepulsionStrength(Unit) >= Unit \div 3
          /\ RepulsionStrength(Unit) <= Unit \div 3 + 1

\* C12 witness: a frame has repelled a particle that lies within the
\* interaction radius of the pointer point.
C12_Witness ==
    /\ isMouseNear
    /\ time > 0
    /\ \E k \in 1 .. Len(particles) :
          /\ WithinRadius(particles[k])
          /\ particles[k].isInteracting
          /\ particles[k].position # particles[k].originalPosition
          /\ RepulsionStrength(DistanceTo(particles[k].position, mousePosition)) < Unit

\* C13: when the mount point is absent or the 3D rendering capability is
\* missing, setup reports an error and leaves no instance, no renderer, no
\* listener, no pending frame and no wired control panel.
C13_SetupFailsFast ==
    (/\ page.status # "loading"
     /\ ~(page.containerPresent /\ page.threeLoaded /\ page.webglAvailable))
       => /\ page.status = "failed"
          /\ Len(page.errors) > 0
          /\ ~page.instance
          /\ ~page.renderer
          /\ listeners = {}
          /\ rafPending = 0
          /\ ~page.panelWired
          /\ ~page.fpsLoop
          /\ InstanceIs(NoInstance)

\* C13 witness: init() has run on a page without the container.
C13_Witness ==
    /\ page.status = "failed"
    /\ ~page.containerPresent
    /\ page.webglAvailable
    /\ Len(page.errors) = 1

\* C14: for every scatterRadius > 0 and every draw, the scattered position
\* lies at a distance from the origin in [0.5 * scatterRadius, scatterRadius]
\* (to within the rounding of the grid: one step of sin(phi) scaled by the
\* radius, and 3 steps for the quotients).
C14_ScatterDistance ==
    probe.kind = "scatter" =>
       /\ 2 * (Length(probe.point) + probe.radius \div Unit + 3) >= probe.radius
       /\ Length(probe.point) <= probe.radius + probe.radius \div Unit + 3

\* C14 witness: a draw near the outer bound at the program's scatterRadius.
C14_Witness ==
    /\ probe.kind = "scatter"
    /\ probe.radius = ScatterRadius
    /\ probe.draw[3] = Unit - 1
    /\ 4 * Length(probe.point) > 3 * ScatterRadius

\* C15: for every total >= 1 the creation loop yields total particles, each
\* with position and originalPosition at distance sphereRadius from the
\* origin (to within 0.005, the precision of ThetaTable).
C15_OnSphere ==
    probe.kind = "sphere" =>
       /\ Len(probe.particles) = probe.total
       /\ \A k \in 1 .. Len(probe.particles) :
             /\ Length(probe.particles[k].position) >= SphereRadius - Unit \div 200
             /\ Length(probe.particles[k].position) <= SphereRadius + Unit \div 200
             /\ probe.particles[k].originalPosition = probe.particles[k].position

\* C15 witness: the loop has run for the largest total of ThetaTable.
C15_Witness ==
    /\ probe.kind = "sphere"
    /\ probe.total = Len(ThetaTable)
    /\ Len(probe.particles) = Len(ThetaTable)
    /\ probe.particles[2].position[3] # 0

\* C16: in a Simulation Step where a particle was already interacting and is
\* still within the radius, interactionStartTime keeps its earlier value.
C16_StartTimeKept ==
    [][Animate =>
         \A k \in 1 .. Len(particles) :
            (particles[k].isInteracting /\ isMouseNear /\ WithinRadius(particles[k]))
               => particles'[k].interactionStartTime = particles[k].interactionStartTime]_vars

\* C17: a pointer-move event leaves every particle's fields and the
\* Simulation Config unchanged; it writes the cached pointer point and the
\* pointer-near flag only.
C17_PointerMoveWritesPointerOnly ==
    [][(\E hit \in PointerHits : MouseMoveEvent(hit))
          => UNCHANGED <<particles, config>>]_vars

\* C17 witness: a pointer-move event has set the point and the flag while
\* every particle is as created.
C17_Witness ==
    /\ mousePosition # Zero3
    /\ isMouseNear
    /\ Len(particles) > 0
    /\ \A k \in 1 .. Len(particles) :
          /\ particles[k].position = particles[k].originalPosition
          /\ ~particles[k].isInteracting
          /\ particles[k].interactionStartTime = 0

\* C18: the frame callback leaves the cached pointer point and the
\* pointer-near flag unchanged, and a step that changes either is a
\* pointer-move event.
C18_PointerChangesOnlyInPointerMove ==
    [][/\ Animate => UNCHANGED pointer
       /\ pointer' # pointer => \E hit \in PointerHits : MouseMoveEvent(hit)]_vars

\* C18 witness: frames have run after a pointer-move event, with an
\* interaction radius that no longer reaches the cached point.
C18_Witness ==
    /\ time > 0
    /\ groupRotationY # 0
    /\ mousePosition # Zero3
    /\ isMouseNear
    /\ DistanceTo(mousePosition, Zero3) >= interactionRadius

\* C19: at the start of every frame callback the store holds exactly
\* particleCount particles, each a child of the current particle group.
C19_StoreBuiltAtFrameStart ==
    [][Animate =>
         /\ Len(particles) = particleCount
         /\ particleGroup \in 1 .. Len(sceneGroups)
         /\ Ids(particles) = sceneGroups[particleGroup]]_vars

\* Step a comes before step b in the log of a frame callback.
Before(log, a, b) ==
    \E i, j \in 1 .. Len(log) : i < j /\ log[i] = a /\ log[j] = b

\* C20: every frame callback updates the orbit controls, then runs the
\* Simulation Step, then renders: render never precedes the Simulation Step,
\* so the frame drawn shows the positions that step left.
C20_FrameOrder ==
    [][Animate =>
         /\ Before(frameLog', "controls.update", "updateParticles")
         /\ Before(frameLog', "updateParticles", "render")
         /\ ~Before(frameLog', "render", "updateParticles")
         /\ rendered' = Positions(particles')]_vars

\* C20 witness: a frame under a morph value above 0 has moved a particle and
\* drawn it where the step left it.
C20_Witness ==
    /\ time > 0
    /\ morphValue > 0
    /\ frameLog = AnimateSteps
    /\ rendered = Positions(particles)
    /\ \E k \in 1 .. Len(particles) :
          particles[k].position # particles[k].originalPosition

\* C21: the next frame callback is scheduled only after the current one has
\* completed its update and render steps.
C21_ScheduledAfterCompletion ==
    [][Animate =>
         /\ Before(frameLog', "updateParticles", "requestAnimationFrame")
         /\ Before(frameLog', "render", "requestAnimationFrame")]_vars

\* C22: while the instance is running (constructed and not disposed), exactly
\* one frame callback is pending between frames.
C22_OnePendingFrame ==
    (page.instance /\ ~rendererDisposed) => rafPending = 1

\* C22 witness: frames have run and the store has been rebuilt on a running
\* instance, and one callback is pending.
C22_Witness ==
    /\ page.instance
    /\ ~rendererDisposed
    /\ time > 0
    /\ particleGroup > 1
    /\ rendererSize # <<800, 600>>
    /\ rafPending = 1

\* C23: the scene contains exactly one particle group, the one that holds the
\* current store.
C23_OneGroupInScene ==
    /\ Len(sceneGroups) = 1
    /\ particleGroup = 1
    /\ sceneGroups[1] = Ids(particles)

\* C24: once a pointer point is cached, the pointer-near flag is true exactly
\* when the distance from that point to the group's origin is below the
\* current interactionRadius.
C24_FlagAgreesWithConfig ==
    mousePosition # Zero3 =>
       (isMouseNear <=> DistanceTo(mousePosition, Zero3) < interactionRadius)

\* C25: each of setMorphValue, setRotationSpeed, setInteractionRadius and
\* setInteractionStrength leaves every other configuration field, the store
\* and the cached pointer state unchanged.
C25_SettersChangeOwnFieldOnly ==
    [][/\ (\E value \in MorphInputs : SetMorphValue(value))
            => UNCHANGED <<particleCount, rotationSpeed, interactionRadius,
                           interactionStrength, particles, pointer>>
       /\ (\E speed \in RotationSpeedInputs : SetRotationSpeed(speed))
            => UNCHANGED <<particleCount, morphValue, interactionRadius,
                           interactionStrength, particles, pointer>>
       /\ (\E radius \in InteractionRadiusInputs : SetInteractionRadius(radius))
            => UNCHANGED <<particleCount, morphValue, rotationSpeed,
                           interactionStrength, particles, pointer>>
       /\ (\E strength \in InteractionStrengthInputs : SetInteractionStrength(strength))
            => UNCHANGED <<particleCount, morphValue, rotationSpeed,
                           interactionRadius, particles, pointer>>]_vars

\* C25 witness: after a pointer-move event, setInteractionRadius and
\* setMorphValue have acted, and the pointer state and the store are as the
\* event left them.
C25_Witness ==
    /\ interactionRadius # InitialInteractionRadius
    /\ morphValue # 0
    /\ time = 0
    /\ mousePosition # Zero3
    /\ isMouseNear
    /\ DistanceTo(mousePosition, Zero3) >= interactionRadius
    /\ particleCount = InitialParticleCount
    /\ particleGroup = 1

====
